---- MODULE Spec2Model ----
(***************************************************************************)
(* A model of pennylane.transforms.optimization.single_qubit_fusion: the   *)
(* pass walks a working copy of the tape's operations, fuses every group   *)
(* of single-qubit rotations that follow each other on one wire into one   *)
(* Rot, and queues the tape's measurements afterwards.                     *)
(*                                                                         *)
(* Angles are counted in quarter turns (multiples of pi/2), so that every  *)
(* rotation is a rotation of the cube and the composition of two rotations *)
(* is computed exactly.                                                    *)
(***************************************************************************)
EXTENDS Integers, Sequences, FiniteSets

\* The longest tape the model runs the pass on.
MaxOps == 4

-----------------------------------------------------------------------------
(* Rotations of the cube: <<a, b, c>> holds the images of the axes e1, e2,  *)
(* e3, each a signed axis in {-3..3} \ {0}.                                 *)

Identity == <<1, 2, 3>>

\* The image of the signed axis s under rotation A.
Image(A, s) == IF s > 0 THEN A[s] ELSE -A[-s]

\* A after B (the matrix product A.B).
Compose(A, B) == [i \in 1..3 |-> Image(A, B[i])]

\* A quarter turn about z (e1 -> e2 -> -e1) and about y (e3 -> e1 -> -e3).
QuarterZ == <<2, -1, 3>>
QuarterY == <<-3, 2, 1>>

RECURSIVE Power(_, _)
Power(A, k) == IF k = 0 THEN Identity ELSE Compose(A, Power(A, k - 1))

RZMatrix(a) == Power(QuarterZ, a % 4)
RYMatrix(a) == Power(QuarterY, a % 4)

EulerTriples == {<<p, t, o>> : p \in 0..3, t \in 0..3, o \in 0..3}

\* Rot(phi, theta, omega) = RZ(omega) RY(theta) RZ(phi).
RotTable ==
    [a \in EulerTriples |->
        Compose(RZMatrix(a[3]), Compose(RYMatrix(a[2]), RZMatrix(a[1])))]

RotMatrix(angles) == RotTable[angles]

CubeRotations == {RotTable[a] : a \in EulerTriples}

\* Order on Euler triples that picks the canonical decomposition.
TripleRank(a) == 16 * a[2] + 4 * a[3] + a[1]

\* The Euler angles of a rotation of the cube: of the triples that give the
\* rotation, the one with the least theta, then the least omega.
EulerTable ==
    [M \in CubeRotations |->
        CHOOSE a \in EulerTriples :
            /\ RotTable[a] = M
            /\ \A b \in EulerTriples :
                  RotTable[b] = M => TripleRank(a) <= TripleRank(b)]

EulerAngles(M) == EulerTable[M]

\* The angles of the Rot that acts as Rot(angles_1) followed by Rot(angles_2).
fuse_rot_angles(angles_1, angles_2) ==
    EulerAngles(Compose(RotMatrix(angles_2), RotMatrix(angles_1)))

-----------------------------------------------------------------------------
(* Operations, tapes and the pass's arguments.                              *)

Op(name, wires, params) == [name |-> name, wires |-> wires, params |-> params]

\* The gates a tape is built from: two rotations about z that undo each other
\* and a general Rot that does not commute with them, on wire 0; a rotation on
\* wire 1; and two gates with no rotation angles, one on wire 0 and one on
\* both wires.
Gates ==
    { Op("RZ", <<0>>, <<1>>), Op("RZ", <<0>>, <<3>>),
      Op("Rot", <<0>>, <<1, 1, 0>>),
      Op("Hadamard", <<0>>, <<>>), Op("CNOT", <<0, 1>>, <<>>),
      Op("RZ", <<1>>, <<1>>) }

Tapes == UNION {[1..n -> Gates] : n \in 0..MaxOps}

MeasurementChoices ==
    { <<Op("expval", <<0>>, <<>>), Op("probs", <<1>>, <<>>)>> }

\* exclude_gates: None, or a list of gate names.
ExcludeChoices ==
    { [none |-> TRUE, names |-> {}],
      [none |-> FALSE, names |-> {"RZ"}],
      [none |-> FALSE, names |-> {"Rot"}] }

\* atol, in quarter turns.
AtolChoices == {0, 1}

\* The value of next_gate_idx when no gate is found.
None == -1

Range(s) == {s[i] : i \in 1..Len(s)}

Min(S) == CHOOSE x \in S : \A y \in S : x <= y

Abs(x) == IF x < 0 THEN -x ELSE x

\* list.pop(i) with i counted from 1.
Pop(s, i) == SubSeq(s, 1, i - 1) \o SubSeq(s, i + 1, Len(s))

\* Whether the gate has single_qubit_rot_angles.
HasRotAngles(op) == op.name \in {"RZ", "Rot"}

\* op.single_qubit_rot_angles(), for a gate that has it.
single_qubit_rot_angles(op) ==
    CASE op.name = "RZ" -> <<op.params[1], 0, 0>>
      [] op.name = "Rot" -> op.params

\* Elementwise |a - b| <= atol + rtol * |b|.
allclose(a, b, rtol, tol) ==
    \A i \in 1..Len(a) : Abs(a[i] - b[i]) <= tol + rtol * Abs(b[i])

zeros(n) == [i \in 1..n |-> 0]

-----------------------------------------------------------------------------
VARIABLES
    operations,         \* tape.operations
    measurements,       \* tape.measurements
    atol,               \* the argument atol
    exclude_gates,      \* the argument exclude_gates
    list_copy,          \* the working copy: positions of tape.operations
    cumulative_angles,  \* the angles accumulated for the current head
    next_gate_idx,      \* index into list_copy[1:] of the next gate, or None
    m,                  \* position of the measurement loop
    pc,                 \* "outer", "inner", "emit", "measure", "done"
    queue,              \* what the pass has queued so far
    run,                \* 1: the pass on the tape, 2: the pass on its own output
    prov,               \* history: for each queue entry, how it was made and from what
    merged,             \* history: the positions fused into the current head so far
    blocked,            \* history: <<head, gate>> for every gate that stopped a group
    skipped,            \* history: the groups dropped as near-identity
    first_count         \* history: the number of operations the first run queued

vars == <<operations, measurements, atol, exclude_gates, list_copy,
          cumulative_angles, next_gate_idx, m, pc, queue, run, prov, merged,
          blocked, skipped, first_count>>

tape == <<operations, measurements, atol, exclude_gates, run, first_count>>

\* The tape position of current_gate, the head of the working list.
current == list_copy[1]

current_gate == operations[current]

next_gate == operations[list_copy[next_gate_idx + 2]]

\* Whether exclude_gates names the gate.
IsExcluded(op) == ~exclude_gates.none /\ op.name \in exclude_gates.names

SharedWires(w1, w2) == Range(w1) \cap Range(w2)

\* Index (from 0) of the first gate of op_list that acts on one of the wires.
find_next_gate(wires, op_list) ==
    LET hits == {i \in 1..Len(op_list) :
                    SharedWires(wires, operations[op_list[i]].wires) # {}}
    IN  IF hits = {} THEN None ELSE Min(hits) - 1

\* NearIdentity with a strict comparison, |angle| < atol.
NearIdentityStrict(angles) == \A i \in 1..Len(angles) : Abs(angles[i]) < atol

\* The near-identity test on the accumulated angles.
NearIdentity(angles) == allclose(angles, zeros(3), 0, atol)

\* apply(op): queue the operation at position i of the tape as it is.
Apply(i) ==
    /\ queue' = Append(queue, operations[i])
    /\ prov' = Append(prov, [kind |-> "apply", members |-> <<i>>])

Init ==
    /\ operations \in Tapes
    /\ measurements \in MeasurementChoices
    /\ atol \in AtolChoices
    /\ exclude_gates \in ExcludeChoices
    /\ list_copy = [i \in 1..Len(operations) |-> i]
    /\ cumulative_angles = zeros(3)
    /\ next_gate_idx = None
    /\ m = 1
    /\ pc = "outer"
    /\ queue = <<>>
    /\ run = 1
    /\ prov = <<>>
    /\ merged = <<>>
    /\ blocked = {}
    /\ skipped = {}
    /\ first_count = 0

\* The head is excluded: queue it and move on.
ExcludedHead ==
    /\ pc = "outer" /\ list_copy # <<>>
    /\ IsExcluded(current_gate)
    /\ Apply(current)
    /\ list_copy' = Tail(list_copy)
    /\ UNCHANGED <<tape, cumulative_angles, next_gate_idx, m, pc, merged, blocked,
                   skipped>>

\* The head has no rotation angles: queue it and move on.
UnsupportedHead ==
    /\ pc = "outer" /\ list_copy # <<>>
    /\ ~IsExcluded(current_gate)
    /\ ~HasRotAngles(current_gate)
    /\ Apply(current)
    /\ list_copy' = Tail(list_copy)
    /\ UNCHANGED <<tape, cumulative_angles, next_gate_idx, m, pc, merged, blocked,
                   skipped>>

\* NoNextGate that queues the head's angles as a Rot, unless they are near zero.
NoNextGateAsRot ==
    /\ pc = "outer" /\ list_copy # <<>>
    /\ ~IsExcluded(current_gate)
    /\ HasRotAngles(current_gate)
    /\ find_next_gate(current_gate.wires, Tail(list_copy)) = None
    /\ IF NearIdentity(single_qubit_rot_angles(current_gate))
       THEN /\ skipped' = skipped \cup {<<current>>}
            /\ UNCHANGED <<queue, prov>>
       ELSE /\ queue' = Append(queue, Op("Rot", current_gate.wires,
                                         single_qubit_rot_angles(current_gate)))
            /\ prov' = Append(prov, [kind |-> "Rot", members |-> <<current>>])
            /\ UNCHANGED skipped
    /\ list_copy' = Tail(list_copy)
    /\ UNCHANGED <<tape, cumulative_angles, next_gate_idx, m, pc, merged, blocked>>

\* No later gate acts on the head's wires: queue the head and move on.
NoNextGate ==
    /\ pc = "outer" /\ list_copy # <<>>
    /\ ~IsExcluded(current_gate)
    /\ HasRotAngles(current_gate)
    /\ find_next_gate(current_gate.wires, Tail(list_copy)) = None
    /\ Apply(current)
    /\ list_copy' = Tail(list_copy)
    /\ UNCHANGED <<tape, cumulative_angles, next_gate_idx, m, pc, merged, blocked,
                   skipped>>

\* A later gate acts on the head's wires: enter the merge loop.
BeginFusion ==
    /\ pc = "outer" /\ list_copy # <<>>
    /\ ~IsExcluded(current_gate)
    /\ HasRotAngles(current_gate)
    /\ find_next_gate(current_gate.wires, Tail(list_copy)) # None
    /\ cumulative_angles' = single_qubit_rot_angles(current_gate)
    /\ next_gate_idx' = find_next_gate(current_gate.wires, Tail(list_copy))
    /\ merged' = <<current>>
    /\ pc' = "inner"
    /\ UNCHANGED <<tape, list_copy, m, queue, prov, blocked, skipped>>

\* MergeNext with the two arguments of fuse_rot_angles exchanged.
MergeNextSwapped ==
    /\ pc = "inner"
    /\ current_gate.wires = next_gate.wires
    /\ ~IsExcluded(next_gate)
    /\ HasRotAngles(next_gate)
    /\ cumulative_angles' =
           fuse_rot_angles(single_qubit_rot_angles(next_gate), cumulative_angles)
    /\ list_copy' = Pop(list_copy, next_gate_idx + 2)
    /\ merged' = Append(merged, list_copy[next_gate_idx + 2])
    /\ next_gate_idx' = find_next_gate(current_gate.wires, Tail(list_copy'))
    /\ pc' = IF next_gate_idx' # None THEN "inner" ELSE "emit"
    /\ UNCHANGED <<tape, m, queue, prov, blocked, skipped>>

\* MergeNext without the pop: the merged gate stays in the working list.
MergeNextNoPop ==
    /\ pc = "inner"
    /\ current_gate.wires = next_gate.wires
    /\ ~IsExcluded(next_gate)
    /\ HasRotAngles(next_gate)
    /\ cumulative_angles' =
           fuse_rot_angles(cumulative_angles, single_qubit_rot_angles(next_gate))
    /\ next_gate_idx' = find_next_gate(current_gate.wires, Tail(list_copy))
    /\ UNCHANGED <<tape, list_copy, m, pc, queue, prov, merged, blocked, skipped>>

\* MergeNext as the body of an "if": the loop is left after one merge.
MergeNextOnce ==
    /\ pc = "inner"
    /\ current_gate.wires = next_gate.wires
    /\ ~IsExcluded(next_gate)
    /\ HasRotAngles(next_gate)
    /\ cumulative_angles' =
           fuse_rot_angles(cumulative_angles, single_qubit_rot_angles(next_gate))
    /\ list_copy' = Pop(list_copy, next_gate_idx + 2)
    /\ merged' = Append(merged, list_copy[next_gate_idx + 2])
    /\ next_gate_idx' = find_next_gate(current_gate.wires, Tail(list_copy'))
    /\ pc' = "emit"
    /\ UNCHANGED <<tape, m, queue, prov, blocked, skipped>>

\* MergeNext without the test of the exclusion list.
MergeNextIgnoringExclusion ==
    /\ pc = "inner"
    /\ current_gate.wires = next_gate.wires
    /\ HasRotAngles(next_gate)
    /\ cumulative_angles' =
           fuse_rot_angles(cumulative_angles, single_qubit_rot_angles(next_gate))
    /\ list_copy' = Pop(list_copy, next_gate_idx + 2)
    /\ merged' = Append(merged, list_copy[next_gate_idx + 2])
    /\ next_gate_idx' = find_next_gate(current_gate.wires, Tail(list_copy'))
    /\ pc' = IF next_gate_idx' # None THEN "inner" ELSE "emit"
    /\ UNCHANGED <<tape, m, queue, prov, blocked, skipped>>

\* The next gate is on the head's wires, not excluded, and has angles: fuse it.
\* (stack and cast_like change the container and the dtype of the angles, not
\* their values.)
MergeNext ==
    /\ pc = "inner"
    /\ current_gate.wires = next_gate.wires
    /\ ~IsExcluded(next_gate)
    /\ HasRotAngles(next_gate)
    /\ cumulative_angles' =
           fuse_rot_angles(cumulative_angles, single_qubit_rot_angles(next_gate))
    /\ list_copy' = Pop(list_copy, next_gate_idx + 2)
    /\ merged' = Append(merged, list_copy[next_gate_idx + 2])
    /\ next_gate_idx' = find_next_gate(current_gate.wires, Tail(list_copy'))
    /\ pc' = IF next_gate_idx' # None THEN "inner" ELSE "emit"
    /\ UNCHANGED <<tape, m, queue, prov, blocked, skipped>>

\* What every break of the merge loop does.
Break ==
    /\ pc' = "emit"
    /\ blocked' = blocked \cup {<<current, list_copy[next_gate_idx + 2]>>}
    /\ UNCHANGED <<tape, list_copy, cumulative_angles, next_gate_idx, m, queue, prov,
                   merged, skipped>>

\* The next gate is on the head's wires but excluded.
BreakExcluded ==
    /\ pc = "inner"
    /\ current_gate.wires = next_gate.wires
    /\ IsExcluded(next_gate)
    /\ Break

\* BreakUnsupported that queues the gate before it breaks.
BreakUnsupportedApplies ==
    /\ pc = "inner"
    /\ current_gate.wires = next_gate.wires
    /\ ~IsExcluded(next_gate)
    /\ ~HasRotAngles(next_gate)
    /\ Apply(list_copy[next_gate_idx + 2])
    /\ pc' = "emit"
    /\ blocked' = blocked \cup {<<current, list_copy[next_gate_idx + 2]>>}
    /\ UNCHANGED <<tape, list_copy, cumulative_angles, next_gate_idx, m, merged,
                   skipped>>

\* BreakUnsupported without the except clause: the exception leaves the pass.
BreakUnsupportedRaises ==
    /\ pc = "inner"
    /\ current_gate.wires = next_gate.wires
    /\ ~IsExcluded(next_gate)
    /\ ~HasRotAngles(next_gate)
    /\ pc' = "raised"
    /\ UNCHANGED <<tape, list_copy, cumulative_angles, next_gate_idx, m, queue, prov,
                   merged, blocked, skipped>>

\* BreakUnsupported that does not break: the search goes on behind the gate.
BreakUnsupportedSearchesOn ==
    /\ pc = "inner"
    /\ current_gate.wires = next_gate.wires
    /\ ~IsExcluded(next_gate)
    /\ ~HasRotAngles(next_gate)
    /\ LET idx == find_next_gate(current_gate.wires,
                                 SubSeq(list_copy, next_gate_idx + 3, Len(list_copy)))
       IN  /\ next_gate_idx' =
                  IF idx = None THEN next_gate_idx ELSE next_gate_idx + 1 + idx
           /\ pc' = IF idx = None THEN "emit" ELSE "inner"
    /\ blocked' = blocked \cup {<<current, list_copy[next_gate_idx + 2]>>}
    /\ UNCHANGED <<tape, list_copy, cumulative_angles, m, queue, prov, merged,
                   skipped>>

\* The next gate is on the head's wires but has no rotation angles.
BreakUnsupported ==
    /\ pc = "inner"
    /\ current_gate.wires = next_gate.wires
    /\ ~IsExcluded(next_gate)
    /\ ~HasRotAngles(next_gate)
    /\ Break

\* BreakWires that removes the gate from the working list before it breaks.
BreakWiresPops ==
    /\ pc = "inner"
    /\ current_gate.wires # next_gate.wires
    /\ pc' = "emit"
    /\ blocked' = blocked \cup {<<current, list_copy[next_gate_idx + 2]>>}
    /\ list_copy' = Pop(list_copy, next_gate_idx + 2)
    /\ UNCHANGED <<tape, cumulative_angles, next_gate_idx, m, queue, prov, merged,
                   skipped>>

\* The next gate's wires are not the head's wires.
BreakWires ==
    /\ pc = "inner"
    /\ current_gate.wires # next_gate.wires
    /\ Break

\* The accumulated angles are not near zero: queue a Rot, remove the head.
ApplyRot ==
    /\ pc = "emit"
    /\ ~NearIdentity(cumulative_angles)
    /\ queue' = Append(queue, Op("Rot", current_gate.wires, cumulative_angles))
    /\ prov' = Append(prov, [kind |-> "Rot", members |-> merged])
    /\ list_copy' = Tail(list_copy)
    /\ cumulative_angles' = zeros(3)
    /\ next_gate_idx' = None
    /\ merged' = <<>>
    /\ pc' = "outer"
    /\ UNCHANGED <<tape, m, blocked, skipped>>

\* The accumulated angles are near zero: queue nothing, remove the head.
SkipRot ==
    /\ pc = "emit"
    /\ NearIdentity(cumulative_angles)
    /\ skipped' = skipped \cup {merged}
    /\ list_copy' = Tail(list_copy)
    /\ cumulative_angles' = zeros(3)
    /\ next_gate_idx' = None
    /\ merged' = <<>>
    /\ pc' = "outer"
    /\ UNCHANGED <<tape, m, queue, prov, blocked>>

\* The working list is empty: go on to the measurements.
LoopExit ==
    /\ pc = "outer" /\ list_copy = <<>>
    /\ pc' = "measure"
    /\ m' = 1
    /\ UNCHANGED <<tape, list_copy, cumulative_angles, next_gate_idx, queue, prov,
                   merged, blocked, skipped>>

\* QueueMeasurement walking the measurements from the last to the first.
QueueMeasurementReversed ==
    /\ pc = "measure" /\ m <= Len(measurements)
    /\ queue' = Append(queue, measurements[Len(measurements) - m + 1])
    /\ prov' = Append(prov, [kind |-> "measure", members |-> <<m>>])
    /\ m' = m + 1
    /\ UNCHANGED <<tape, list_copy, cumulative_angles, next_gate_idx, pc, merged,
                   blocked, skipped>>

\* Queue the next measurement of the tape.
QueueMeasurement ==
    /\ pc = "measure" /\ m <= Len(measurements)
    /\ queue' = Append(queue, measurements[m])
    /\ prov' = Append(prov, [kind |-> "measure", members |-> <<m>>])
    /\ m' = m + 1
    /\ UNCHANGED <<tape, list_copy, cumulative_angles, next_gate_idx, pc, merged,
                   blocked, skipped>>

\* Every measurement is queued: the pass returns.
Return ==
    /\ pc = "measure" /\ m > Len(measurements)
    /\ pc' = "done"
    /\ UNCHANGED <<tape, list_copy, cumulative_angles, next_gate_idx, m, queue, prov,
                   merged, blocked, skipped>>

\* The operations and the measurements of the tape the pass has queued.
QueuedOperations == SubSeq(queue, 1, Len(queue) - Len(measurements))

\* Run the pass again, on the tape it queued, with the same arguments.
SecondRun ==
    /\ pc = "done" /\ run = 1
    /\ operations' = QueuedOperations
    /\ first_count' = Len(QueuedOperations)
    /\ run' = 2
    /\ list_copy' = [i \in 1..Len(operations') |-> i]
    /\ cumulative_angles' = zeros(3)
    /\ next_gate_idx' = None
    /\ m' = 1
    /\ pc' = "outer"
    /\ queue' = <<>>
    /\ prov' = <<>>
    /\ merged' = <<>>
    /\ blocked' = {}
    /\ skipped' = {}
    /\ UNCHANGED <<measurements, atol, exclude_gates>>

Next ==
    \/ ExcludedHead
    \/ UnsupportedHead
    \/ NoNextGate
    \/ BeginFusion
    \/ MergeNext
    \/ BreakExcluded
    \/ BreakUnsupported
    \/ BreakWires
    \/ ApplyRot
    \/ SkipRot
    \/ LoopExit
    \/ QueueMeasurement
    \/ Return

\* One run of the pass on a tape.
Spec == Init /\ [][Next]_vars

\* One run of the pass, which takes its next step as long as it has one: the
\* function is synchronous and nothing can suspend it.
FairSpec == Spec /\ WF_vars(Next)

\* The pass, and then the pass again on what it queued.
NextTwice == Next \/ SecondRun

SpecTwice == Init /\ [][NextTwice]_vars

-----------------------------------------------------------------------------
(* What the properties below are stated with.                               *)

Positions == 1..Len(operations)

\* The queue entries that are operations, not measurements.
OpEntries == {k \in 1..Len(queue) : prov[k].kind # "measure"}

\* The queue entries made from the operation at position i.
EntriesOf(i) ==
    {k \in 1..Len(queue) :
        /\ prov[k].kind # "measure"
        /\ \E j \in 1..Len(prov[k].members) : prov[k].members[j] = i}

Increasing(s) == \A i, j \in 1..Len(s) : i < j => s[i] < s[j]

Front(s) == SubSeq(s, 1, Len(s) - 1)

Last(s) == s[Len(s)]

\* The angles of the operation at position i of the tape.
AnglesAt(i) == single_qubit_rot_angles(operations[i])

\* The angles of the operations at the positions s, fused from left to right.
RECURSIVE ComposedAngles(_)
ComposedAngles(s) ==
    IF Len(s) = 1 THEN AnglesAt(s[1])
    ELSE fuse_rot_angles(ComposedAngles(Front(s)), AnglesAt(Last(s)))

\* The rotation done by applying the operations at the positions s one after
\* the other, the first one first.
RECURSIVE NetAction(_)
NetAction(s) ==
    IF s = <<>> THEN Identity
    ELSE Compose(RotMatrix(AnglesAt(Last(s))), NetAction(Front(s)))

\* All three angles are within atol of zero.
WithinAtol(angles) == \A i \in 1..3 : Abs(angles[i]) <= atol

\* exclude_gates names the operation at position i.
ExcludedAt(i) == ~exclude_gates.none /\ operations[i].name \in exclude_gates.names

\* The operation at position i has rotation angles.
SupportedAt(i) == operations[i].name \in {"RZ", "Rot"}

\* The operations at positions i and j act on a common wire.
ShareWire(i, j) == Range(operations[i].wires) \cap Range(operations[j].wires) # {}

\* The groups the pass has formed so far: the queued ones, the dropped ones and
\* the one being accumulated.
QueuedGroups == {prov[k].members : k \in {e \in OpEntries : prov[e].kind = "Rot"}}

Groups == QueuedGroups \cup skipped \cup (IF merged = <<>> THEN {} ELSE {merged})

-----------------------------------------------------------------------------
(* C1: every Rot the pass queues carries the angles of exactly the          *)
(* operations fused into it, composed in tape order (the head first), and   *)
(* acts as those operations applied one after the other; every other        *)
(* operation is queued as itself; no operation is queued twice, and once    *)
(* the pass is done every operation is in one queue entry or in a dropped   *)
(* group; with atol = 0 a dropped group acts as the identity.               *)
C1_FusedRotCarriesComposition ==
    /\ \A k \in OpEntries :
          LET g == prov[k].members IN
          IF prov[k].kind = "Rot"
          THEN /\ g # <<>> /\ Increasing(g)
               /\ \A j \in 1..Len(g) :
                     /\ SupportedAt(g[j])
                     /\ operations[g[j]].wires = operations[g[1]].wires
               /\ queue[k] = Op("Rot", operations[g[1]].wires, ComposedAngles(g))
               /\ RotMatrix(queue[k].params) = NetAction(g)
          ELSE /\ Len(g) = 1
               /\ queue[k] = operations[g[1]]
    /\ \A i \in Positions :
          LET entries == Cardinality(EntriesOf(i)) IN
          /\ entries <= 1
          /\ i \in Range(list_copy) /\ (merged = <<>> \/ i # merged[1])
                => entries = 0
          /\ pc = "done" =>
                entries + Cardinality({g \in skipped : i \in Range(g)}) = 1
    /\ \A g \in skipped : atol = 0 => NetAction(g) = Identity

\* A finished first run that fused two rotations whose order matters.
C1_Witness ==
    /\ pc = "done" /\ run = 1
    /\ \E k \in OpEntries :
          /\ prov[k].kind = "Rot"
          /\ Len(prov[k].members) = 2
          /\ fuse_rot_angles(AnglesAt(prov[k].members[1]), AnglesAt(prov[k].members[2]))
               # fuse_rot_angles(AnglesAt(prov[k].members[2]), AnglesAt(prov[k].members[1]))

-----------------------------------------------------------------------------
\* A head the pass treats as a rotation: it has angles and is not excluded.
RotationHead(i) == SupportedAt(i) /\ ~ExcludedAt(i)

\* Some later operation of the tape acts on a wire of the one at position i.
HasLaterOnWire(i) == \E j \in Positions : i < j /\ ShareWire(i, j)

(* C2 as stated: no queue entry comes from a rotation head whose cumulative *)
(* angles are all within atol, whether or not it had merged successors.     *)
C2_AsStated ==
    \A k \in OpEntries :
        RotationHead(prov[k].members[1])
            => ~WithinAtol(ComposedAngles(prov[k].members))

(* C2, amended: no queue entry comes from a rotation head that is followed  *)
(* by an operation on its wire and whose cumulative angles are all within   *)
(* atol; the groups dropped are those with such angles, and nothing is      *)
(* queued for any of their operations.                                      *)
C2_NearIdentityNotQueued ==
    /\ \A k \in OpEntries :
          RotationHead(prov[k].members[1]) /\ HasLaterOnWire(prov[k].members[1])
              => ~WithinAtol(ComposedAngles(prov[k].members))
    /\ \A g \in skipped :
          /\ WithinAtol(ComposedAngles(g))
          /\ \A j \in 1..Len(g) : EntriesOf(g[j]) = {}

\* A finished first run that dropped a group of two rotations.
C2_Witness ==
    /\ pc = "done" /\ run = 1
    /\ \E g \in skipped : Len(g) = 2 /\ WithinAtol(ComposedAngles(g))

-----------------------------------------------------------------------------
(* C3: an operation named in exclude_gates is in no group, neither as head  *)
(* nor as a merged successor; once it has left the working list it is in    *)
(* the queue exactly once, as itself; and no group that starts before it on *)
(* its wire has a member after it.                                          *)
C3_ExcludedNeverMerged ==
    exclude_gates.none \/
    LET groups == Groups IN
    \A e \in Positions :
        ExcludedAt(e) =>
            /\ \A g \in groups : e \notin Range(g)
            /\ LET entries == EntriesOf(e) IN
               /\ Cardinality(entries) <= 1
               /\ \A k \in entries :
                     /\ prov[k] = [kind |-> "apply", members |-> <<e>>]
                     /\ queue[k] = operations[e]
               /\ e \notin Range(list_copy) => entries # {}
            /\ \A g \in groups :
                  g[1] < e /\ ShareWire(g[1], e) => \A j \in 1..Len(g) : g[j] < e

\* A finished first run in which an excluded rotation stands between a fused
\* group and a later rotation on the same wire.
C3_Witness ==
    /\ pc = "done" /\ run = 1
    /\ \E e \in Positions, g \in QueuedGroups :
          /\ ExcludedAt(e) /\ SupportedAt(e)
          /\ Len(g) >= 2 /\ Last(g) < e /\ ShareWire(g[1], e)
          /\ \E j \in Positions : e < j /\ RotationHead(j) /\ ShareWire(e, j)

-----------------------------------------------------------------------------
(* C4: operations that share a wire are never reordered. Of two operations  *)
(* that share a wire and are in different queue entries, the entry of the   *)
(* earlier one comes first, and the later one is never queued while the     *)
(* earlier one still waits in the working list; and no operation outside a  *)
(* group that shares the group's wire lies between two of its members.      *)
C4_WireOrderPreserved ==
    /\ LET entries == OpEntries IN
       \A kj \in entries :
          \A y \in 1..Len(prov[kj].members) :
              LET j == prov[kj].members[y] IN
              /\ \A ki \in entries :
                    ki > kj =>
                        \A x \in 1..Len(prov[ki].members) :
                            LET i == prov[ki].members[x]
                            IN  ~(i < j /\ ShareWire(i, j))
              /\ \A x \in 1..Len(list_copy) :
                    LET i == list_copy[x]
                    IN  ~(i < j /\ ShareWire(i, j))
    /\ \A g \in Groups, x \in Positions :
          x \notin Range(g) /\ ShareWire(g[1], x) => ~(g[1] < x /\ x < Last(g))

\* A finished first run with a fused group whose members are not neighbours
\* in the tape, and a later operation on the group's wire.
C4_Witness ==
    /\ pc = "done" /\ run = 1
    /\ \E g \in QueuedGroups :
          /\ Len(g) >= 2 /\ g[2] > g[1] + 1
          /\ \E x \in Positions : Last(g) < x /\ ShareWire(g[1], x) /\ EntriesOf(x) # {}

-----------------------------------------------------------------------------
\* The nearest operation before (after) position i that shares a wire with it,
\* or 0.
PrevOnWire(i) ==
    LET before == {j \in Positions : j < i /\ ShareWire(i, j)}
    IN  IF before = {} THEN 0 ELSE CHOOSE j \in before : \A x \in before : x <= j

NextOnWire(i) ==
    LET after == {j \in Positions : i < j /\ ShareWire(i, j)}
    IN  IF after = {} THEN 0 ELSE Min(after)

\* The operations at i and j are rotations on the same single wire that the
\* pass may fuse.
SameWireRotations(i, j) ==
    /\ RotationHead(i) /\ RotationHead(j)
    /\ Len(operations[i].wires) = 1
    /\ operations[i].wires = operations[j].wires

\* The run of rotations that starts at position i.
RECURSIVE RunFrom(_)
RunFrom(i) ==
    LET n == NextOnWire(i)
    IN  IF n # 0 /\ SameWireRotations(i, n) THEN <<i>> \o RunFrom(n) ELSE <<i>>

\* Position i starts a maximal run.
RunStart(i) ==
    /\ RotationHead(i) /\ Len(operations[i].wires) = 1
    /\ PrevOnWire(i) = 0 \/ ~SameWireRotations(PrevOnWire(i), i)

(* C5: when the pass is done, every maximal run of two or more rotations on *)
(* one wire has been replaced by exactly one Rot on that wire with the      *)
(* composition of the run's angles, or by nothing when those angles are all *)
(* within atol; a tape of nothing but rotations on one wire gives at most   *)
(* one operation.                                                           *)
C5_RunBecomesOneRot ==
    pc = "done" =>
        \A i \in Positions :
            RunStart(i) /\ Len(RunFrom(i)) >= 2 =>
                LET r == RunFrom(i)
                    entries == UNION {EntriesOf(r[j]) : j \in 1..Len(r)}
                IN  IF WithinAtol(ComposedAngles(r))
                    THEN entries = {}
                    ELSE /\ Cardinality(entries) = 1
                         /\ \A k \in entries :
                               /\ queue[k] = Op("Rot", operations[i].wires, ComposedAngles(r))
                               /\ prov[k].members = r

\* The tape [Rot, Rot, RZ, RZ] on wire 0 has become one Rot.
C5_Witness ==
    /\ pc = "done" /\ run = 1
    /\ Len(operations) = 4
    /\ [i \in 1..4 |-> operations[i].name] = <<"Rot", "Rot", "RZ", "RZ">>
    /\ \A i \in 1..4 : operations[i].wires = <<0>>
    /\ exclude_gates.none
    /\ QueuedOperations = <<Op("Rot", <<0>>, ComposedAngles(<<1, 2, 3, 4>>))>>

-----------------------------------------------------------------------------
IsMeasurement(e) == e.name \in {"expval", "probs"}

(* C6: no measurement is queued while operations are being processed; once  *)
(* the working list is empty the queue is the operations followed by the    *)
(* first m - 1 measurements of the tape, as they are and in their order;    *)
(* when the pass is done these are all the measurements of the tape.        *)
C6_MeasurementsQueuedLast ==
    /\ pc \in {"outer", "inner", "emit"} =>
          \A k \in 1..Len(queue) : ~IsMeasurement(queue[k])
    /\ pc \in {"measure", "done"} =>
          /\ list_copy = <<>>
          /\ m - 1 <= Len(queue)
          /\ SubSeq(queue, Len(queue) - (m - 1) + 1, Len(queue))
                = SubSeq(measurements, 1, m - 1)
          /\ \A k \in 1..(Len(queue) - (m - 1)) : ~IsMeasurement(queue[k])
    /\ pc = "done" => m - 1 = Len(measurements)

\* A finished first run that queued operations, dropped a group, and ends with
\* the two measurements of the tape.
C6_Witness ==
    /\ pc = "done" /\ run = 1
    /\ skipped # {}
    /\ Len(queue) = 4
    /\ SubSeq(queue, 3, 4) = measurements

-----------------------------------------------------------------------------
-----------------------------------------------------------------------------
(* C8: the pass run on its own output, with the same atol and               *)
(* exclude_gates, queues as many operations as the first run did.           *)
C8_SecondRunSameCount ==
    pc = "done" /\ run = 2 => Len(QueuedOperations) = first_count

\* A finished second run on a tape of two or more operations, one of them a
\* Rot that the first run made by fusion.
C8_Witness ==
    /\ pc = "done" /\ run = 2
    /\ first_count >= 2
    /\ \E i \in Positions : operations[i] \notin Gates

-----------------------------------------------------------------------------
\* The head is a rotation and no operation left in the working list shares a
\* wire with it.
LoneHead ==
    /\ pc = "outer" /\ list_copy # <<>>
    /\ RotationHead(current)
    /\ \A j \in Range(Tail(list_copy)) : ~ShareWire(current, j)

(* C9 as stated: for such a head the pass queues a Rot with the head's      *)
(* angles on the head's wire, or nothing when the angles are all within     *)
(* atol, and removes the head from the working list.                        *)
C9_AsStated ==
    [][LoneHead =>
          /\ list_copy' = Tail(list_copy)
          /\ queue' = IF WithinAtol(AnglesAt(current)) THEN queue
                      ELSE Append(queue, Op("Rot", operations[current].wires,
                                            AnglesAt(current)))]_vars

(* C9, amended: for such a head the pass queues the head operation itself,  *)
(* whatever its angles, and removes the head from the working list.         *)
C9_LoneHeadQueuedAsItself ==
    [][LoneHead =>
          /\ list_copy' = Tail(list_copy)
          /\ queue' = Append(queue, operations[current])]_vars

\* A first run has just queued an RZ whose angles are within atol and that no
\* later operation follows on its wire.
C9_Witness ==
    /\ pc = "outer" /\ run = 1
    /\ queue # <<>>
    /\ Last(queue).name = "RZ"
    /\ Last(prov).kind = "apply"
    /\ LET i == Last(prov).members[1]
       IN  /\ RotationHead(i) /\ ~HasLaterOnWire(i)
           /\ WithinAtol(AnglesAt(i))
           /\ i \notin Range(list_copy)

-----------------------------------------------------------------------------
\* The merge loop looks at a gate that it will not merge: its wires are not
\* the head's, or it is excluded, or it has no rotation angles.
AtBlocker ==
    /\ pc = "inner"
    /\ LET b == list_copy[next_gate_idx + 2]
       IN  \/ operations[b].wires # operations[current].wires
           \/ ExcludedAt(b)
           \/ ~SupportedAt(b)

(* C10: at such a gate the merge loop stops and leaves the working list,    *)
(* the angles and the queue as they are; the step after the loop queues the *)
(* accumulated Rot, or nothing when its angles are within atol, and removes *)
(* the head alone; the gate that stopped the loop is never a merged         *)
(* successor: it stays in the working list until it is the head, and its    *)
(* queue entry comes after the entry of the group it stopped.               *)
C10_BlockerStaysForLater ==
    /\ [][AtBlocker =>
             /\ pc' = "emit"
             /\ list_copy' = list_copy
             /\ cumulative_angles' = cumulative_angles
             /\ queue' = queue]_vars
    /\ [][pc = "emit" =>
             /\ pc' = "outer"
             /\ list_copy' = Tail(list_copy)
             /\ queue' = IF WithinAtol(cumulative_angles) THEN queue
                         ELSE Append(queue, Op("Rot", operations[current].wires,
                                               cumulative_angles))]_vars
    /\ [](\A hb \in blocked :
             LET h == hb[1]
                 b == hb[2]
             IN  /\ \A g \in Groups : b \in Range(g) => g[1] = b
                 /\ \/ b \in Range(list_copy)
                    \/ \E k \in EntriesOf(b) : prov[k].members[1] = b
                    \/ \E g \in skipped : g[1] = b
                 /\ b \notin Range(list_copy) => h \notin Range(list_copy)
                 /\ \A kh \in EntriesOf(h), kb \in EntriesOf(b) : kh < kb)

\* A finished first run in which a CNOT, which overlaps the head's wire only
\* partly, stopped a group of two rotations and was queued after their Rot.
C10_Witness ==
    /\ pc = "done" /\ run = 1
    /\ \E hb \in blocked :
          /\ operations[hb[2]].name = "CNOT"
          /\ \E kh \in EntriesOf(hb[1]), kb \in EntriesOf(hb[2]) :
                /\ Len(prov[kh].members) = 2
                /\ kh < kb

-----------------------------------------------------------------------------
\* The steps the pass still has to take, at most: three for every operation
\* left in the working list, one for every measurement left, and what is left
\* of the current iteration.
StepsLeft ==
    3 * Len(list_copy) + (Len(measurements) + 1 - m)
      + (CASE pc = "outer" -> 3
           [] pc = "inner" -> 2
           [] pc = "emit" -> 1
           [] pc = "measure" -> 1
           [] OTHER -> 0)

(* C11: the pass terminates. An iteration of the merge loop breaks, leaving *)
(* the working list as it is, or removes one operation behind the head; a   *)
(* turn of the outer loop removes the head, at once or after the merge      *)
(* loop; every step brings the end nearer; and the pass ends, with the      *)
(* working list empty and every measurement queued.                         *)
C11_PassTerminates ==
    /\ [][pc = "inner" =>
             \/ pc' = "emit" /\ list_copy' = list_copy
             \/ /\ Len(list_copy') = Len(list_copy) - 1
                /\ list_copy'[1] = list_copy[1]
                /\ pc' \in {"inner", "emit"}]_vars
    /\ [][pc = "outer" /\ list_copy # <<>> =>
             \/ pc' = "outer" /\ list_copy' = Tail(list_copy)
             \/ pc' = "inner" /\ list_copy' = list_copy]_vars
    /\ [][pc = "emit" => pc' = "outer" /\ list_copy' = Tail(list_copy)]_vars
    /\ [][StepsLeft' < StepsLeft]_vars
    /\ [](StepsLeft >= 0)
    /\ <>[](/\ pc = "done"
            /\ list_copy = <<>>
            /\ Len(queue) >= Len(measurements)
            /\ SubSeq(queue, Len(queue) - Len(measurements) + 1, Len(queue))
                  = measurements)

\* A finished run whose merge loop both merged an operation and broke at one.
C11_Witness ==
    /\ pc = "done" /\ list_copy = <<>>
    /\ Len(operations) = MaxOps
    /\ blocked # {}
    /\ \E g \in Groups : Len(g) >= 2

-----------------------------------------------------------------------------
\* The operations queued so far plus the operations still in the working list.
Accounted ==
    Cardinality({k \in 1..Len(queue) : ~IsMeasurement(queue[k])}) + Len(list_copy)

(* C12: at every point of a run the operations queued so far plus those     *)
(* still in the working list are at most the operations of the tape, so the *)
(* finished pass has queued no more operations than the tape holds; no step *)
(* queues more than one entry or lets that sum grow; and no step changes    *)
(* tape.operations.                                                         *)
C12_NoMoreOperationsThanInput ==
    /\ [](Accounted <= Len(operations))
    /\ [](pc = "done" => Len(QueuedOperations) <= Len(operations))
    /\ [][/\ Accounted' <= Accounted
          /\ Len(queue') <= Len(queue) + 1
          /\ operations' = operations]_vars

\* A finished run on a full tape that queued some operations, but fewer than
\* the tape holds, while the working list is empty and the tape is whole.
C12_Witness ==
    /\ pc = "done" /\ list_copy = <<>>
    /\ Len(operations) = MaxOps
    /\ 0 < Len(QueuedOperations)
    /\ Len(QueuedOperations) < Len(operations)

====
